---- MODULE Spec2Model ----
(***************************************************************************)
(* Model of mwa_qa: the calibration-solution store (read_calfits.CalFits)   *)
(* and the metrics engine (cal_metrics.CalMetrics).                         *)
(*                                                                         *)
(* Python objects are modelled as records with an "attrs" field, the set   *)
(* of attribute names assigned so far (the instance __dict__): reading an  *)
(* attribute that is not in attrs raises AttributeError, as in Python.     *)
(* A call that raises ends with the name of the exception as its result.   *)
(* Python indices are 0-based; sequences here are 1-based, so the element  *)
(* Python calls x[i] is x[i + 1] and x[-j] is x[Len(x) - j + 1].           *)
(***************************************************************************)
EXTENDS Integers, Sequences, FiniteSets, TLC

\* ---------------------------------------------------------------- bounds
NTime == 1
NAnt == 3
NChan == 2

Times == 1..NTime
AntIdx == 1..NAnt
ChanIdx == 1..NChan

\* ------------------------------------------------- complex 2x2 matrices
\* A complex number is <<re, im>>; a Jones matrix is <<XX, XY, YX, YY>>,
\* the row-major flattening of [[XX, XY], [YX, YY]] (reshape((2, 2))).
CZero == <<0, 0>>
COne == <<1, 0>>
CI == <<0, 1>>
CAdd(x, y) == <<x[1] + y[1], x[2] + y[2]>>
CSub(x, y) == <<x[1] - y[1], x[2] - y[2]>>
CMul(x, y) == <<x[1] * y[1] - x[2] * y[2], x[1] * y[2] + x[2] * y[1]>>
CNeg(x) == <<0 - x[1], 0 - x[2]>>
CConj(x) == <<x[1], 0 - x[2]>>
CAbs2(x) == x[1] * x[1] + x[2] * x[2]
\* x / y for y # 0, exact on the matrices of JonesSet (their determinants are
\* units, so the quotient is again a Gaussian integer)
CDiv(x, y) ==
    LET p == CMul(x, CConj(y))
    IN  <<p[1] \div CAbs2(y), p[2] \div CAbs2(y)>>

Identity == <<COne, CZero, CZero, COne>>
Det(m) == CSub(CMul(m[1], m[4]), CMul(m[2], m[3]))

\* a.dot(b) for 2x2 matrices
Dot(a, b) ==
    << CAdd(CMul(a[1], b[1]), CMul(a[2], b[3])),
       CAdd(CMul(a[1], b[2]), CMul(a[2], b[4])),
       CAdd(CMul(a[3], b[1]), CMul(a[4], b[3])),
       CAdd(CMul(a[3], b[2]), CMul(a[4], b[4])) >>

\* np.linalg.inv(ref): raises LinAlgError on a singular matrix, else the
\* adjugate over the determinant
Singular(m) == Det(m) = CZero
Inv(m) ==
    << CDiv(m[4], Det(m)), CDiv(CNeg(m[2]), Det(m)),
       CDiv(CNeg(m[3]), Det(m)), CDiv(m[1], Det(m)) >>

\* The Jones matrices the SOLUTIONS section is drawn from: the identity, two
\* invertible matrices (determinants i and -1) and a singular one.
Shear == <<CI, COne, CZero, COne>>
Flip == <<CZero, COne, COne, CZero>>
Degenerate == <<COne, CZero, CZero, CZero>>
JonesOdd == {Shear, Flip, Degenerate}
JonesSet == {Identity} \cup JonesOdd

\* ------------------------------------------------------------ container
VARIABLES
    hdr_keys,      \* HDUs whose header carries TFIELDS and its TTYPEn keys
    tile_cols,     \* column names of TILES, in file order
    chan_cols,     \* column names of CHANBLOCKS, in file order
    tile_flags,    \* the flag bit of every antenna (the TILES Flag column)
    solutions,     \* SOLUTIONS as complex Jones matrices [time][antenna][channel]
    calfits,       \* the CalFits instance
    init_args,     \* the arguments CalFits(...) was called with
    init_result,   \* "none" before CalFits(...), then "ok" or the exception raised
    stdout         \* number of warnings printed

storeVars == <<hdr_keys, tile_cols, chan_cols, tile_flags, solutions,
               calfits, init_args, init_result, stdout>>

VARIABLES
    store_complete, \* TRUE when CalFits also has the members cal_metrics.py reads
                    \* and read_calfits.py does not define (m_thresh, Nchan,
                    \* reference_antenna, fft_gains(), gains_for_receiver(path, r),
                    \* antenna as an array)
    rms_amp_freq,   \* [pol][antenna]: RMS amplitude across frequency, time-averaged
    fft_power,      \* [pol][antenna]: summed delay-spectrum power
    calmetrics,     \* the CalMetrics instance
    run_args,       \* ant_threshold of the last run_metrics call
    run_result,     \* "none", then "ok" or the exception of the last run_metrics call
    write_result,   \* "none", then "ok" or the exception of the last write_to call
    completed,      \* some run_metrics call has returned
    first           \* ant_threshold and report of the first run_metrics call that returned

engineVars == <<store_complete, rms_amp_freq, fft_power, calmetrics, run_args,
                run_result, write_result, completed, first>>

VARIABLES
    pol_gains,      \* gain_array[:, :, :, j] for one polarization j, as
                    \* [time][antenna][channel]: NaN, or the positive number
                    \* that names a finite gain
    fft_data,       \* what the last gains_fft call returned (<<>> before)
    fft_result,     \* "none", then "ok" or the exception of the last gains_fft call
    rms_series,     \* rms_amp_freq_p of the last statistics pass (<<>> before)
    power_series,   \* fft_power of the last statistics pass (<<>> before)
    series_result   \* "none", then "ok" or the exception of that pass

transformVars == <<pol_gains, fft_data, fft_result, rms_series, power_series,
                   series_result>>

None == -1

TILE_COLUMNS == <<"Antenna", "TileName", "Flag">>
CHAN_COLUMNS == <<"Index", "Freq", "Flag">>

\* the sub-sequences of a column list: a file that lacks some of the columns
RECURSIVE SubSeqs(_)
SubSeqs(s) ==
    IF s = <<>> THEN {<<>>}
    ELSE LET rest == SubSeqs(Tail(s))
         IN  rest \cup {<<Head(s)>> \o r : r \in rest}

InSeq(x, s) == \E k \in 1..Len(s) : s[k] = x

\* the value row i of a table holds in the column named col
TileValue(col, i) ==
    CASE col = "Antenna" -> i - 1
      [] col = "TileName" -> 100 + i
      [] col = "Flag" -> tile_flags[i]
ChanValue(col, i) ==
    CASE col = "Index" -> i - 1
      [] col = "Freq" -> 1000 + 40 * i
      [] col = "Flag" -> 0

\* tile_hdu.data and chan_hdu.data: one record per row, its fields in the
\* order of the columns the file has
tile_data == [i \in AntIdx |-> [k \in 1..Len(tile_cols) |-> TileValue(tile_cols[k], i)]]
chan_data == [i \in ChanIdx |-> [k \in 1..Len(chan_cols) |-> ChanValue(chan_cols[k], i)]]

\* ---------------------------------------------------------- CalFits
Raise(o, e) == [o EXCEPT !.exc = e]
SetAttr(o, name, value) == [o EXCEPT !.attrs = @ \cup {name}, ![name] = value]
HasAttr(o, name) == name \in o.attrs

\* hdu_fields(hdr): the TTYPEn names; a header without the keys raises
\* KeyError, and the handler's message formats the undefined name hdu_name,
\* which raises NameError before anything is printed.
hdu_fields(hdu, cols) ==
    IF hdu \in hdr_keys THEN [exc |-> "none", fields |-> cols]
                        ELSE [exc |-> "NameError", fields |-> <<>>]

\* if name in fields: self.attr = [data[i][pos] for i in range(len(data))],
\* pos being the 0-based position the code hard-wires for that column
ReadColumn(o, fields, name, attr, data, pos) ==
    IF o.exc # "none" \/ ~InSeq(name, fields) THEN o
    ELSE IF \E i \in DOMAIN data : pos + 1 > Len(data[i]) THEN Raise(o, "IndexError")
    ELSE SetAttr(o, attr, [i \in DOMAIN data |-> data[i][pos + 1]])

ReadTable(o, hdu, cols, data, names, attrnames) ==
    IF o.exc # "none" THEN o
    ELSE LET h == hdu_fields(hdu, cols) IN
         IF h.exc # "none" THEN Raise(o, h.exc)
         ELSE LET o1 == ReadColumn(o, h.fields, names[1], attrnames[1], data, 0)
                  o2 == ReadColumn(o1, h.fields, names[2], attrnames[2], data, 1)
              IN  ReadColumn(o2, h.fields, names[3], attrnames[3], data, 2)

gains_ind_for(antnum) == antnum

\* _iterate_refant: anindex runs -1, -2, ...; antenna_flags[anindex] raises
\* IndexError once -anindex exceeds the length. The result is the anindex
\* the loop stops at, or 0 for IndexError.
RECURSIVE ScanFrom(_, _)
RECURSIVE ScanForward(_, _)
ScanForward(flags, anindex) ==
    IF 0 - anindex > Len(flags) THEN 0
    ELSE IF flags[0 - anindex] = 0 THEN 0 - (Len(flags) + 1 + anindex)
    ELSE ScanForward(flags, anindex - 1)
RECURSIVE ScanWrapping(_, _)
ScanWrapping(flags, anindex) ==
    IF 0 - anindex > Len(flags) THEN -1
    ELSE IF flags[Len(flags) + anindex + 1] = 0 THEN anindex
    ELSE ScanWrapping(flags, anindex - 1)
ScanFrom(flags, anindex) ==
    IF 0 - anindex > Len(flags) THEN 0
    ELSE IF flags[Len(flags) + anindex + 1] = 0 THEN anindex
    ELSE ScanFrom(flags, anindex - 1)

_iterate_refant(o) ==
    IF ~HasAttr(o, "antenna_flags") THEN [exc |-> "AttributeError", value |-> None]
    ELSE LET anindex == ScanFrom(o.antenna_flags, -1) IN
         IF anindex = 0 THEN [exc |-> "IndexError", value |-> None]
         ELSE IF ~HasAttr(o, "antenna") THEN [exc |-> "AttributeError", value |-> None]
         ELSE [exc |-> "none", value |-> o.antenna[Len(o.antenna) + anindex + 1]]

\* _check_refant reads self.antenna_flag, an attribute __init__ never assigns
\* (it assigns antenna_flags)
CheckedAttr == "antenna_flag"
_check_refant(o) ==
    IF ~HasAttr(o, CheckedAttr) THEN "AttributeError"
    ELSE IF o[CheckedAttr][gains_ind_for(o.ref_antenna) + 1] # 0 THEN "AssertionError"
    ELSE "none"

\* _normalized_data(data), data = gain_array[t] of shape (tiles, freq, pols):
\* refs[c] = inv(data[ref_ind][c]); div_ref is the flat list, tile by tile and
\* channel by channel, of data[tile][c].dot(refs[c]); reshape(data.shape) puts
\* entry (tile, c) of the result at flat position tile * Nchan + c.
RefsSingular(data, ref_ind) ==
    \E c \in ChanIdx : Singular(data[ref_ind + 1][c])
div_refLeft(data, ref_ind) ==
    [n \in 1..(NAnt * NChan) |->
        LET tile == ((n - 1) \div NChan) + 1
            c == ((n - 1) % NChan) + 1
        IN  Dot(Inv(data[ref_ind + 1][c]), data[tile][c])]
div_ref(data, ref_ind) ==
    [n \in 1..(NAnt * NChan) |->
        LET tile == ((n - 1) \div NChan) + 1
            c == ((n - 1) % NChan) + 1
        IN  Dot(data[tile][c], Inv(data[ref_ind + 1][c]))]
_normalized_data(data, ref_ind) ==
    LET flat == div_ref(data, ref_ind)
    IN  [a \in AntIdx |-> [c \in ChanIdx |-> flat[(a - 1) * NChan + c]]]

\* normalized_gains: a deep copy of gain_array with every timeblock replaced
\* by its normalized data; the first singular reference matrix raises.
normalized_gains(o) ==
    LET ref_ind == gains_ind_for(o.ref_antenna) IN
    IF ref_ind + 1 \notin AntIdx THEN [exc |-> "IndexError", value |-> o.gain_array]
    ELSE IF \E t \in Times : RefsSingular(o.gain_array[t], ref_ind)
    THEN [exc |-> "LinAlgError", value |-> o.gain_array]
    ELSE [exc |-> "none",
          value |-> [t \in Times |-> _normalized_data(o.gain_array[t], ref_ind)]]

\* the primary header of the container: hdus[0].header
Header == [OBSID |-> 1061316296, UVW_MIN |-> 58]

\* the instance before __init__ assigns anything
NewCalFits ==
    [attrs |-> {}, exc |-> "none", obsid |-> None, uvcut |-> None,
     gain_array |-> <<>>, antenna |-> <<>>, tilename |-> <<>>, antenna_flags |-> <<>>,
     frequency_channels |-> <<>>, frequency_array |-> <<>>, frequency_flags |-> <<>>,
     norm |-> FALSE, ref_antenna |-> None]

\* lines 45-62: paths, gain_array, times, Ntime, uvcut, obsid
InitHeader(o) ==
    [SetAttr(SetAttr(SetAttr(o, "gain_array", solutions), "uvcut", Header.UVW_MIN),
             "obsid", Header.OBSID) EXCEPT
        !.attrs = @ \cup {"calfits_path", "metafits_path", "start_time", "end_time",
                          "average_time", "Ntime"}]

\* lines 63-82
InitTables(o) ==
    LET o1 == ReadTable(o, "TILES", tile_cols, tile_data, TILE_COLUMNS,
                        <<"antenna", "tilename", "antenna_flags">>)
    IN  ReadTable(o1, "CHANBLOCKS", chan_cols, chan_data, CHAN_COLUMNS,
                  <<"frequency_channels", "frequency_array", "frequency_flags">>)

\* lines 83-93
InitNorm(o, norm, ref_antenna) ==
    IF o.exc # "none" THEN o
    ELSE LET o1 == [SetAttr(o, "norm", norm) EXCEPT
                       !.attrs = @ \cup {"convergence", "baseline_weights"}] IN
         IF ~norm THEN o1
         ELSE LET o2 == IF ref_antenna = None
                        THEN LET r == _iterate_refant(o1) IN
                             IF r.exc # "none" THEN Raise(o1, r.exc)
                             ELSE SetAttr(o1, "ref_antenna", r.value)
                        ELSE LET o3 == SetAttr(o1, "ref_antenna", ref_antenna)
                                 e == _check_refant(o3) IN
                             IF e # "none" THEN Raise(o3, e) ELSE o3
              IN  IF o2.exc # "none" THEN o2
                  ELSE LET g == normalized_gains(o2) IN
                       IF g.exc # "none" THEN Raise(o2, g.exc)
                       ELSE SetAttr(o2, "gain_array", g.value)

\* lines 94-96
InitViews(o) ==
    IF o.exc # "none" THEN o
    ELSE [o EXCEPT !.attrs = @ \cup {"amplitudes", "phases", "Metafits"}]

CalFits__init__(norm, ref_antenna) ==
    InitViews(InitNorm(InitTables(InitHeader(NewCalFits)), norm, ref_antenna))

\* CalFits(calfits_path, norm=norm, ref_antenna=ref_antenna)
Construct(norm, ref_antenna) ==
    /\ init_result = "none"
    /\ LET o == CalFits__init__(norm, ref_antenna) IN
        /\ calfits' = o
        /\ init_result' = IF o.exc = "none" THEN "ok" ELSE o.exc
    /\ init_args' = [norm |-> norm, ref_antenna |-> ref_antenna]
    /\ UNCHANGED <<hdr_keys, tile_cols, chan_cols, tile_flags, solutions, stdout>>
    /\ UNCHANGED engineVars
    /\ UNCHANGED transformVars

\* ------------------------------------------------------- CalMetrics
Pols == <<"XX", "YY">>
PolSet == {"XX", "YY"}
NaN == -1
Thresholds == {3, 10}
DefaultThreshold == 10

\* ---- numpy helpers over a per-antenna series s (a sequence, NaN for nan)
FiniteIdx(s) == {i \in DOMAIN s : s[i] # NaN}

RECURSIVE Insert(_, _)
Insert(x, sorted) ==
    IF sorted = <<>> THEN <<x>>
    ELSE IF x <= Head(sorted) THEN <<x>> \o sorted
    ELSE <<Head(sorted)>> \o Insert(x, Tail(sorted))
RECURSIVE SortFrom(_, _)
SortFrom(s, k) ==
    IF k > Len(s) THEN <<>>
    ELSE IF s[k] = NaN THEN SortFrom(s, k + 1)
    ELSE Insert(s[k], SortFrom(s, k + 1))

\* 2 * np.nanmedian(s): the middle of the sorted non-NaN values, the mean of
\* the two middle ones for an even count; NaN when every value is NaN
nanmedian2(s) ==
    LET v == SortFrom(s, 1)
        n == Len(v)
    IN  IF n = 0 THEN NaN
        ELSE IF n % 2 = 1 THEN 2 * v[(n + 1) \div 2]
        ELSE v[n \div 2] + v[(n \div 2) + 1]

Abs(x) == IF x < 0 THEN 0 - x ELSE x

\* (s - median) / nanmedian(|s - median|), the score of antenna i as the
\* fraction num / den; nan marks 0/0 and NaN operands, den = 0 with num # 0
\* is +inf or -inf by the sign of num
modz(s) ==
    LET med2 == nanmedian2(s)
        dev2 == [i \in DOMAIN s |-> IF s[i] = NaN \/ med2 = NaN THEN NaN
                                    ELSE Abs(2 * s[i] - med2)]
        mad4 == nanmedian2(dev2)
    IN  [i \in DOMAIN s |->
            IF s[i] = NaN \/ med2 = NaN \/ mad4 = NaN
            THEN [nan |-> TRUE, num |-> 0, den |-> 0]
            ELSE [nan |-> (mad4 = 0 /\ 2 * s[i] = med2),
                  num |-> 2 * (2 * s[i] - med2), den |-> mad4]]

\* (z < -1 * ant_threshold) | (z > ant_threshold)
Beyond(z, ant_threshold) ==
    /\ ~z.nan
    /\ IF z.den = 0 THEN z.num # 0
       ELSE \/ z.num < 0 - ant_threshold * z.den
            \/ z.num > ant_threshold * z.den

\* np.where(...)[0] of a score series
Outliers(z, ant_threshold) == {i \in DOMAIN z : Beyond(z[i], ant_threshold)}

\* lines 174-193: the bad antennas of one polarization
bad_antsRmsOnly(antenna, rms, power, ant_threshold) ==
    {antenna[i] : i \in Outliers(modz(rms), ant_threshold)}
bad_ants(antenna, rms, power, ant_threshold) ==
    LET bad_ants1 == {antenna[i] : i \in Outliers(modz(rms), ant_threshold)}
        bad_ants2 == {antenna[i] : i \in Outliers(modz(power), ant_threshold)}
    IN  bad_ants1 \cup bad_ants2

\* MetaFits.Nants: the total antenna count of the metadata provider
Nants == NAnt

EmptyPol == [keys |-> {}, RMS |-> <<>>, BAD_ANTS |-> {}]
EmptyReport ==
    [keys |-> {}, OBSID |-> None, UVCUT |-> None, REF_ANTENNA |-> None, ANTENNA |-> <<>>,
     XX |-> EmptyPol, YY |-> EmptyPol,
     BAD_ANTS |-> {}, PERCENT_BAD_ANTS |-> <<0, 1>>]
SetKey(m, key, value) == [m EXCEPT !.keys = @ \cup {key}, ![key] = value]
AddKeys(m, ks) == [m EXCEPT !.keys = @ \cup ks]

NewCalMetrics == [attrs |-> {}, metrics |-> EmptyReport]

\* the store has m_thresh, reference_antenna, Nchan, fft_gains() and
\* gains_for_receiver(path, r), and its antenna is an array
CompleteStore == store_complete

\* _initialize_metrics_dict: [metrics, exc]; an exception leaves the keys
\* assigned before it in self.metrics. CalFits.reference_antenna is the
\* reference antenna of the Store, which read_calfits.py keeps as ref_antenna.
reference_antenna(cf) == cf.ref_antenna
\* lines 139-140
RefAntennaEntryAlways(cf, m) == SetKey(m, "REF_ANTENNA", reference_antenna(cf))
RefAntennaEntry(cf, m) ==
    IF cf.norm THEN SetKey(m, "REF_ANTENNA", reference_antenna(cf)) ELSE m

_initialize_metrics_dict(cf) ==
    LET m0 == SetKey(SetKey(AddKeys(EmptyReport, {"POLS"}), "OBSID", cf.obsid),
                     "UVCUT", cf.uvcut) IN
    IF ~CompleteStore THEN [metrics |-> m0, exc |-> "AttributeError"]
    ELSE LET m1 == AddKeys(m0, {"M_THRESH"})
             m2 == RefAntennaEntry(cf, m1)
             m3 == AddKeys(m2, {"NTIME"})
         IN  IF ~HasAttr(cf, "frequency_array")
             THEN [metrics |-> m3, exc |-> "AttributeError"]
             ELSE IF Len(cf.frequency_array) < 2
             THEN [metrics |-> AddKeys(m3, {"START_FREQ"}), exc |-> "IndexError"]
             ELSE LET m4 == AddKeys(m3, {"START_FREQ", "CH_WIDTH", "NCHAN"}) IN
                  IF ~HasAttr(cf, "antenna")
                  THEN [metrics |-> m4, exc |-> "AttributeError"]
                  ELSE [metrics |-> AddKeys(SetKey(m4, "ANTENNA", cf.antenna),
                                            {"XX", "YY"}),
                        exc |-> "none"]

\* lines 195-200: the entries of one polarization
PolEntries(cf, p, ant_threshold) ==
    [keys |-> {"RMS", "RMS_MODZ", "BAD_ANTS", "SKEWNESS", "DFFT_POWER"},
     RMS |-> rms_amp_freq[p],
     BAD_ANTS |-> bad_ants(cf.antenna, rms_amp_freq[p], fft_power[p], ant_threshold)]

\* lines 203-207: np.unique of the XX list concatenated with the XX list, and
\* its length over MetaFits.Nants times 100 (as the fraction <<num, den>>)
Aggregate(m) ==
    LET all == m.XX.BAD_ANTS \cup m.XX.BAD_ANTS
        m1 == SetKey(m, "BAD_ANTS", all)
        m2 == SetKey(m1, "PERCENT_BAD_ANTS", <<Cardinality(m1.BAD_ANTS) * 100, Nants>>)
    IN  AddKeys(m2, {"PERCENT_UNUSED_BLS", "PERCENT_NONCONVERGED_CHS",
                     "RMS_CONVERGENCE", "SKEWNESS", "RECEIVER_VAR", "DFFT_POWER"})

\* run_metrics(ant_threshold): [metrics, exc]
run_metrics(cf, ant_threshold) ==
    LET i == _initialize_metrics_dict(cf) IN
    IF i.exc # "none" THEN i
    ELSE LET mx == [i.metrics EXCEPT !.XX = PolEntries(cf, "XX", ant_threshold)]
             my == [mx EXCEPT !.YY = PolEntries(cf, "YY", ant_threshold)]
         IN  [metrics |-> Aggregate(my), exc |-> "none"]

\* write_to leaves self.metrics as it is and hands it to the writer
MetricsClearedByWrite(m) == EmptyReport
MetricsAfterWrite(m) == m

\* The Store as a metric leaves it. gains_for_antnum returns a view of
\* gain_array; np.abs, np.conj and the arithmetic on it, gains_for_receiver
\* and gains_fft (np.zeros) build new arrays, and neither cal_metrics.py nor
\* an accessor of read_calfits.py assigns to an attribute or an element of
\* the Store.
StoreZeroedByMetrics(cf) ==
    [cf EXCEPT !.gain_array =
        [t \in DOMAIN @ |-> [a \in DOMAIN @[t] |-> [c \in DOMAIN @[t][a] |->
            <<CZero, CZero, CZero, CZero>>]]]]
StoreAfterMetrics(cf) == cf

RunMetrics(ant_threshold) ==
    /\ init_result = "ok"
    /\ calfits' = StoreAfterMetrics(calfits)
    /\ LET r == run_metrics(calfits, ant_threshold) IN
        /\ calmetrics' = [attrs |-> calmetrics.attrs \cup {"metrics"}, metrics |-> r.metrics]
        /\ run_result' = IF r.exc = "none" THEN "ok" ELSE r.exc
        /\ completed' = (completed \/ r.exc = "none")
        /\ first' = IF ~completed /\ r.exc = "none"
                    THEN [ant_threshold |-> ant_threshold, metrics |-> r.metrics]
                    ELSE first
    /\ run_args' = ant_threshold
    /\ UNCHANGED <<hdr_keys, tile_cols, chan_cols, tile_flags, solutions, init_args,
                   init_result, stdout>>
    /\ UNCHANGED <<store_complete, rms_amp_freq, fft_power, write_result>>
    /\ UNCHANGED transformVars

WriteTo ==
    /\ init_result = "ok"
    /\ IF ~HasAttr(calmetrics, "metrics")
       THEN /\ write_result' = "AttributeError"
            /\ UNCHANGED calmetrics
       ELSE /\ write_result' = "ok"
            /\ calmetrics' = [calmetrics EXCEPT !.metrics = MetricsAfterWrite(@)]
    /\ UNCHANGED <<storeVars, store_complete, rms_amp_freq, fft_power, run_args,
                   run_result, completed, first>>
    /\ UNCHANGED transformVars

\* unused_antennas_percent, unused_channels_percent, non_converging_percent, ...:
\* each reads the store and returns a number or raises; none assigns anything
MetricFunction ==
    /\ init_result = "ok"
    /\ calfits' = StoreAfterMetrics(calfits)
    /\ UNCHANGED <<hdr_keys, tile_cols, chan_cols, tile_flags, solutions, init_args,
                   init_result, stdout>>
    /\ UNCHANGED engineVars
    /\ UNCHANGED transformVars

\* ------------------------------------------- NaN-aware transform, series
\* _filter_nans(data): the channels of a slice that hold a number and those
\* that hold nan, each in increasing order (np.where)
RECURSIVE IndsFrom(_, _, _)
IndsFrom(data, k, nan) ==
    IF k > Len(data) THEN <<>>
    ELSE (IF (data[k] = NaN) = nan THEN <<k>> ELSE <<>>) \o IndsFrom(data, k + 1, nan)
_filter_nans(data) ==
    [nonans_inds |-> IndsFrom(data, 1, FALSE), nans_inds |-> IndsFrom(data, 1, TRUE)]

\* An entry of fft_data: nan, or bin number `bin` of the transform of the
\* sequence `of`. The transform is kept as a term: its n outputs are the
\* bins 0 .. n-1 of its input.
NanEntry == [nan |-> TRUE, bin |-> 0, of |-> <<>>]
ZeroEntry == [nan |-> FALSE, bin |-> 0, of |-> <<>>]
fft(x) == [k \in 1..Len(x) |-> [nan |-> FALSE, bin |-> k - 1, of |-> x]]
\* np.fft.fftshift(x) is np.roll(x, n // 2)
fftshift(x) ==
    LET n == Len(x)
    IN  [j \in 1..n |-> x[((j - 1 + n - (n \div 2)) % n) + 1]]

\* lines 210-217 for one slice data = gain_array[t, i, :, j]: the product
\* data[nonans_inds] * window[nonans_inds] pairs each gain with the window
\* sample of its channel; np.fft.fft of an empty array raises ValueError,
\* which the handler turns into an all-nan slice
fft_sliceZeroFilled(data) ==
    LET f == _filter_nans(data)
        x == [i \in 1..Len(f.nonans_inds) |->
                 [g |-> data[f.nonans_inds[i]], w |-> f.nonans_inds[i] - 1]]
    IN  IF Len(x) = 0 THEN [c \in DOMAIN data |-> ZeroEntry]
        ELSE [c \in DOMAIN data |->
                 IF data[c] = NaN THEN ZeroEntry
                 ELSE fftshift(fft(x))[CHOOSE i \in 1..Len(x) : f.nonans_inds[i] = c]]
fft_slice(data) ==
    LET f == _filter_nans(data)
        x == [i \in 1..Len(f.nonans_inds) |->
                 [g |-> data[f.nonans_inds[i]], w |-> f.nonans_inds[i] - 1]]
    IN  IF Len(x) = 0 THEN [c \in DOMAIN data |-> NanEntry]
        ELSE [c \in DOMAIN data |->
                 IF data[c] = NaN THEN NanEntry
                 ELSE fftshift(fft(x))[CHOOSE i \in 1..Len(x) : f.nonans_inds[i] = c]]

\* gains_fft: the window has len(self.frequency_array) samples (line 205);
\* window[nonans_inds] raises IndexError outside it, which is not caught
gains_fft(cf, gains) ==
    IF ~HasAttr(cf, "frequency_array") THEN [exc |-> "AttributeError", value |-> <<>>]
    ELSE IF \E t \in DOMAIN gains : \E a \in DOMAIN gains[t] : \E c \in DOMAIN gains[t][a] :
               gains[t][a][c] # NaN /\ c > Len(cf.frequency_array)
    THEN [exc |-> "IndexError", value |-> <<>>]
    ELSE [exc |-> "none",
          value |-> [t \in DOMAIN gains |-> [a \in DOMAIN gains[t] |->
                        fft_slice(gains[t][a])]]]

\* Real numbers of the statistics pass, by class: "nan", "zero" (exactly 0.0)
\* and "fin" (some finite number). np.abs, ** 2, / _sh[2] and np.sqrt keep
\* nan as nan and a finite number finite.
\* np.nanmean over a set of entries: nan when every entry is nan
nanmean(nans) == IF \A b \in nans : b THEN "nan" ELSE "fin"
\* np.nansum over a set of entries: nan counts as zero, so 0.0 when every
\* entry is nan
nansum(nans) == IF \A b \in nans : b THEN "zero" ELSE "fin"

\* lines 162-165, 174: sqrt(nanmean(gain_amps ** 2, axis=2) / Nchan), then
\* nanmean over the timeblocks
rms_amp_freq_p(gains) ==
    [a \in AntIdx |->
        nanmean({nanmean({gains[t][a][c] = NaN : c \in ChanIdx}) = "nan" : t \in Times})]
\* lines 183-186: abs(nanmean over the timeblocks), then nansum over the channels
fft_power_p(data) ==
    [a \in AntIdx |->
        nansum({nanmean({data[t][a][c].nan : t \in Times}) = "nan" : c \in ChanIdx})]

\* CalFits.gains_fft()
GainsFft ==
    /\ init_result = "ok"
    /\ LET r == gains_fft(calfits, pol_gains) IN
        /\ fft_data' = r.value
        /\ fft_result' = IF r.exc = "none" THEN "ok" ELSE r.exc
    /\ UNCHANGED <<storeVars, engineVars, pol_gains, rms_series, power_series,
                   series_result>>

\* the per-antenna series of run_metrics for polarization j (lines 159-186)
SeriesPass ==
    /\ init_result = "ok"
    /\ LET r == gains_fft(calfits, pol_gains) IN
        /\ series_result' = IF r.exc = "none" THEN "ok" ELSE r.exc
        /\ rms_series' = IF r.exc = "none" THEN rms_amp_freq_p(pol_gains) ELSE rms_series
        /\ power_series' = IF r.exc = "none" THEN fft_power_p(r.value) ELSE power_series
    /\ UNCHANGED <<storeVars, engineVars, pol_gains, fft_data, fft_result>>

\* ------------------------------------------------------- the store's runs
\* the flag columns in which the last n antennas are flagged
TrailingFlags == {[k \in AntIdx |-> IF k > NAnt - n THEN 1 ELSE 0] : n \in 0..NAnt}

Cells == Times \X AntIdx \X ChanIdx

\* the containers whose tables vary: any header, any subset of the optional
\* columns, any flags; identity gains
InitTablesVary ==
    /\ hdr_keys \in SUBSET {"TILES", "CHANBLOCKS"}
    /\ tile_cols \in SubSeqs(TILE_COLUMNS)
    /\ chan_cols \in SubSeqs(CHAN_COLUMNS)
    /\ tile_flags \in [AntIdx -> {0, 1}]
    /\ solutions = [t \in Times |-> [a \in AntIdx |-> [c \in ChanIdx |-> Identity]]]

\* the complete containers whose gains vary: the Jones matrices of two cells
\* are drawn from JonesSet, the others are the identity
InitGainsVary ==
    /\ hdr_keys = {"TILES", "CHANBLOCKS"}
    /\ tile_cols = TILE_COLUMNS
    /\ chan_cols = CHAN_COLUMNS
    /\ tile_flags \in TrailingFlags
    /\ \E c1 \in Cells, c2 \in Cells : \E m1 \in JonesSet, m2 \in JonesSet :
          solutions = [t \in Times |-> [a \in AntIdx |-> [c \in ChanIdx |->
                          IF <<t, a, c>> = c1 THEN m1
                          ELSE IF <<t, a, c>> = c2 THEN m2 ELSE Identity]]]

\* the per-antenna series the engine's containers give
FlatRms == [a \in AntIdx |-> 1]
FlatPower == [a \in AntIdx |-> 4]
SpikePower(k) == [a \in AntIdx |-> IF a = k THEN 40 ELSE 4]
Amps == {NaN, 1, 2, 9}
RichSeries == {[rms |-> r, power |-> FlatPower] : r \in [AntIdx -> Amps]}
SmallSeries == {[rms |-> FlatRms, power |-> FlatPower],
                [rms |-> [FlatRms EXCEPT ![1] = 9], power |-> SpikePower(NAnt)]}

InitObjects ==
    /\ calfits = NewCalFits
    /\ init_args = [norm |-> FALSE, ref_antenna |-> None]
    /\ init_result = "none"
    /\ stdout = 0
    /\ calmetrics = NewCalMetrics
    /\ run_args = DefaultThreshold
    /\ run_result = "none"
    /\ write_result = "none"
    /\ completed = FALSE
    /\ first = [ant_threshold |-> DefaultThreshold, metrics |-> EmptyReport]
    /\ fft_data = <<>>
    /\ fft_result = "none"
    /\ rms_series = <<>>
    /\ power_series = <<>>
    /\ series_result = "none"

\* a gain array without nan
InitFiniteGains ==
    pol_gains = [t \in Times |-> [a \in AntIdx |-> [c \in ChanIdx |->
                    (t * NAnt + a) * NChan + c]]]

InitFlatSeries ==
    /\ rms_amp_freq = [p \in PolSet |-> FlatRms]
    /\ fft_power = [p \in PolSet |-> FlatPower]

\* the store alone: CalFits(...) on every container
Init ==
    /\ InitTablesVary \/ InitGainsVary
    /\ store_complete = FALSE
    /\ InitFlatSeries
    /\ InitFiniteGains
    /\ InitObjects

Next ==
    \E norm \in BOOLEAN : \E ref_antenna \in {None} \cup (0..(NAnt - 1)) :
        Construct(norm, ref_antenna)

vars == <<storeVars, engineVars, transformVars>>
Spec == Init /\ [][Next]_vars

\* the engine: CalMetrics(...) and then its methods in any order, on the
\* containers whose tables vary and on the complete containers whose
\* per-antenna series vary (those of YY over RichSeries, those of XX over
\* SmallSeries)
InitSeriesVary ==
    /\ hdr_keys = {"TILES", "CHANBLOCKS"}
    /\ tile_cols = TILE_COLUMNS
    /\ chan_cols = CHAN_COLUMNS
    /\ tile_flags = [k \in AntIdx |-> 0]
    /\ solutions = [t \in Times |-> [a \in AntIdx |-> [c \in ChanIdx |-> Identity]]]
    /\ store_complete = TRUE
    /\ \E p \in {"YY"} : \E x \in RichSeries : \E y \in SmallSeries :
         /\ rms_amp_freq = [q \in PolSet |-> IF q = p THEN x.rms ELSE y.rms]
         /\ fft_power = [q \in PolSet |-> IF q = p THEN x.power ELSE y.power]

InitMetrics ==
    /\ \/ /\ InitTablesVary
          /\ hdr_keys = {"TILES", "CHANBLOCKS"}
          /\ tile_cols \in {TILE_COLUMNS, <<"TileName">>}
          /\ tile_flags \in TrailingFlags
          /\ store_complete \in BOOLEAN
          /\ InitFlatSeries
       \/ InitSeriesVary
    /\ InitFiniteGains
    /\ InitObjects

NextMetrics ==
    \/ \E norm \in BOOLEAN : \E ref_antenna \in {None, 0} :
         Construct(norm, ref_antenna)
    \/ \E ant_threshold \in Thresholds : RunMetrics(ant_threshold)
    \/ WriteTo
    \/ MetricFunction

SpecMetrics == InitMetrics /\ [][NextMetrics]_vars

\* the transform and the series: gains_fft and the statistics pass on gain
\* arrays in which every antenna is all nan, has no nan, or has one nan
\* entry; on containers with and without the Freq column
NanPatterns ==
    {[t \in Times |-> [c \in ChanIdx |-> n]] : n \in BOOLEAN}
    \cup {[t \in Times |-> [c \in ChanIdx |-> (t = t0 /\ c = c0)]] :
              t0 \in Times, c0 \in ChanIdx}
InitSeries ==
    /\ hdr_keys = {"TILES", "CHANBLOCKS"}
    /\ tile_cols = TILE_COLUMNS
    /\ chan_cols \in {CHAN_COLUMNS, <<"Index">>}
    /\ tile_flags = [k \in AntIdx |-> 0]
    /\ solutions = [t \in Times |-> [a \in AntIdx |-> [c \in ChanIdx |-> Identity]]]
    /\ store_complete = FALSE
    /\ InitFlatSeries
    /\ \E pat \in [AntIdx -> NanPatterns] :
          pol_gains = [t \in Times |-> [a \in AntIdx |-> [c \in ChanIdx |->
                          IF pat[a][t][c] THEN NaN
                          ELSE (t * NAnt + a) * NChan + c]]]
    /\ InitObjects

NextSeries ==
    \/ Construct(FALSE, None)
    \/ GainsFft
    \/ SeriesPass

SpecSeries == InitSeries /\ [][NextSeries]_vars

\* ------------------------------------------------------ claims: the store
Constructed == init_result # "none"
\* __init__ reached line 85: both tables were read without an exception
TablesRead == Constructed /\ HasAttr(calfits, "norm")
AutoSelect == Constructed /\ init_args.norm /\ init_args.ref_antenna = None
ExplicitRef == Constructed /\ init_args.norm /\ init_args.ref_antenna # None
Unflagged == {k \in AntIdx : tile_flags[k] = 0}
HighestUnflagged == CHOOSE k \in Unflagged : \A j \in Unflagged : j <= k
Normalized == init_result = "ok" /\ calfits.norm

C4_AllFlaggedFails ==
    (AutoSelect /\ TablesRead /\ HasAttr(calfits, "antenna_flags") /\ Unflagged = {})
    => /\ init_result = "IndexError"
       /\ ~HasAttr(calfits, "ref_antenna")
       /\ calfits.gain_array = solutions

C4_Witness ==
    /\ AutoSelect /\ TablesRead /\ HasAttr(calfits, "antenna_flags")
    /\ Unflagged = {}
    /\ init_result = "IndexError"

\* C5: with an explicit reference antenna and normalization on, construction
\* fails at the reference check if and only if that antenna's flag bit is
\* nonzero; an unflagged explicit reference is accepted and used.
C5_ExplicitRefCheckedByFlag ==
    (ExplicitRef /\ TablesRead /\ HasAttr(calfits, "antenna_flags"))
    => LET flagged == tile_flags[init_args.ref_antenna + 1] # 0 IN
       /\ flagged => init_result \in {"AssertionError", "AttributeError"}
       /\ flagged => calfits.gain_array = solutions
       /\ ~flagged => /\ init_result \in {"ok", "LinAlgError"}
                       /\ calfits.ref_antenna = init_args.ref_antenna

\* C6: after normalization against r, at every timeblock and channel the
\* normalized matrix of r is the identity and every antenna's normalized
\* matrix, right-multiplied by r's original matrix, is its original matrix
\* (it is the original right-multiplied by the inverse), entry by entry in
\* the (time, antenna, channel, pol) layout.
C6_NormalizedAgainstReference ==
    Normalized =>
        LET r == gains_ind_for(calfits.ref_antenna) + 1 IN
        \A t \in Times : \A c \in ChanIdx :
            /\ ~Singular(solutions[t][r][c])
            /\ calfits.gain_array[t][r][c] = Identity
            /\ \A a \in AntIdx :
                  Dot(calfits.gain_array[t][a][c], solutions[t][r][c])
                      = solutions[t][a][c]

\* the reference and another antenna both differ from the identity at a cell
C6_Witness ==
    /\ Normalized
    /\ \E t \in Times : \E c \in ChanIdx : \E a \in AntIdx :
          LET r == gains_ind_for(calfits.ref_antenna) + 1 IN
          /\ a # r
          /\ solutions[t][r][c] # Identity
          /\ solutions[t][a][c] # Identity
          /\ calfits.gain_array[t][a][c] # solutions[t][a][c]

\* C7: a reference Jones matrix that is singular at some channel does not
\* abort normalization: construction completes.
C7_SingularReferenceRecovered ==
    (AutoSelect /\ HasAttr(calfits, "ref_antenna")
        /\ \E t \in Times : \E c \in ChanIdx :
              Singular(solutions[t][gains_ind_for(calfits.ref_antenna) + 1][c]))
    => init_result = "ok"

\* Whether the attribute of the k-th column of a table is as its presence
\* in the table requires.
ColumnRead(cols, names, attrnames, k, value(_, _), rows) ==
    IF InSeq(names[k], cols)
    THEN /\ HasAttr(calfits, attrnames[k])
         /\ calfits[attrnames[k]] = [i \in rows |-> value(names[k], i)]
    ELSE ~HasAttr(calfits, attrnames[k])

\* C8: a container with all its sections and any subset of the optional
\* columns is read without a fatal error: a warning is printed when a column
\* is absent, the attribute of every present column is set from that column
\* and the attribute of every absent column is left unset.
C8_AbsentColumnsTolerated ==
    (Constructed /\ ~init_args.norm /\ hdr_keys = {"TILES", "CHANBLOCKS"})
    => /\ init_result = "ok"
       /\ (tile_cols # TILE_COLUMNS \/ chan_cols # CHAN_COLUMNS) => stdout > 0
       /\ \A k \in 1..3 :
            /\ ColumnRead(tile_cols, TILE_COLUMNS,
                          <<"antenna", "tilename", "antenna_flags">>, k, TileValue, AntIdx)
            /\ ColumnRead(chan_cols, CHAN_COLUMNS,
                          <<"frequency_channels", "frequency_array", "frequency_flags">>,
                          k, ChanValue, ChanIdx)

\* ----------------------------------------------------- claims: the engine
\* C1: a write_to call made while no run_metrics call has returned fails
\* and hands no report to the writer.
C1_NoReportBeforeRunCompletes ==
    write_result = "ok" => completed

C9_BadAntsIsUnionOfPols ==
    run_result = "ok" =>
        LET m == calmetrics.metrics
            union == m.XX.BAD_ANTS \cup m.YY.BAD_ANTS
        IN  /\ m.BAD_ANTS = union
            /\ m.PERCENT_BAD_ANTS[1] * Nants
                  = 100 * Cardinality(union) * m.PERCENT_BAD_ANTS[2]

\* the k-th smallest of the values f takes on F, by counting
KthSmallest(f, F, k) ==
    CHOOSE v \in {f[i] : i \in F} :
        /\ Cardinality({i \in F : f[i] < v}) < k
        /\ k <= Cardinality({i \in F : f[i] <= v})
\* twice the median of the values f takes on the non-empty set F
TwiceMedian(f, F) ==
    LET n == Cardinality(F)
    IN  KthSmallest(f, F, (n + 1) \div 2) + KthSmallest(f, F, (n \div 2) + 1)
\* the modified z-score of s[i] lies beyond +/- threshold: s[i] is a number
\* and, M being the median absolute deviation from the median m,
\* |s[i] - m| > threshold * M, or M = 0 and s[i] # m (an infinite score)
ScoreBeyond(s, i, threshold) ==
    LET F == FiniteIdx(s) IN
    /\ i \in F
    /\ LET med2 == TwiceMedian(s, F)
           dev2 == [j \in F |-> Abs(2 * s[j] - med2)]
           mad4 == TwiceMedian(dev2, F)
       IN  IF mad4 = 0 THEN dev2[i] # 0
           ELSE 2 * dev2[i] > threshold * mad4

AllNanAntennas ==
    {a \in AntIdx : \A t \in Times : \A c \in ChanIdx : pol_gains[t][a][c] = NaN}

\* C13: after the statistics pass of run_metrics, an antenna whose gains are
\* nan at every timeblock and channel has nan, not 0, both in the per-antenna
\* RMS series and in the per-antenna summed delay-spectrum power series.
C13_AllNanAntennaStaysNan ==
    series_result = "ok" =>
        \A a \in AllNanAntennas :
            rms_series[a] = "nan" /\ power_series[a] = "nan"

\* the non-nan channels of a slice, and the sequence of its non-nan gains
\* in channel order, each with the window sample of its channel
NonNanChannels(data) == {c \in DOMAIN data : data[c] # NaN}
Rank(data, c) == Cardinality({d \in NonNanChannels(data) : d <= c})
NonNanSubsequence(data) ==
    [i \in 1..Cardinality(NonNanChannels(data)) |->
        LET c == CHOOSE d \in NonNanChannels(data) : Rank(data, d) = i
        IN  [g |-> data[c], w |-> c - 1]]

====
